---- MODULE Spec2Model ----
(***************************************************************************)
(* A model of data_diff/queries/ast_classes.py: the query AST, the fluent  *)
(* builder verbs of ITable / Join, Select.make, name resolution of `this`  *)
(* placeholders, and the compile methods of the AST nodes.                  *)
(*                                                                         *)
(* Python values are tagged records: every value has a field `kind`        *)
(* ("None", "list", "int", "str", "SKIP", or the class name of the node).   *)
(* A _ResolveColumn is the one mutable object of the AST: the tree holds a  *)
(* reference [kind |-> "ResolveColumn", id |-> i] and the slot `resolved`   *)
(* of object i lives in the heap (variable resolved).                       *)
(***************************************************************************)
EXTENDS Integers, Sequences, FiniteSets, TLC

VARIABLES
    cur,        \* builder: the table the fluent chain has produced so far
    resolved,   \* builder: heap of _ResolveColumn.resolved slots, by object id
    call,       \* builder: the last call (verb, receiver, arguments, outcome)
    steps,      \* builder: number of calls made
    inp,        \* compile / CaseWhen.type: the input of the run
    out         \* compile / CaseWhen.type: the result of the run

vars == <<cur, resolved, call, steps, inp, out>>

\* ------------------------------------------------------------------ bounds
NumPlaceholders == 2
MaxSteps == 3

\* ------------------------------------------------------------ Python values
None == [kind |-> "None"]
SKIP == [kind |-> "SKIP"]
PyList(s) == [kind |-> "list", items |-> s]
PyInt(n) == [kind |-> "int", v |-> n]
PyStr(s) == [kind |-> "str", v |-> s]

Ok(v) == [status |-> "ok", value |-> v]
Raise(e) == [status |-> e, value |-> None]

\* Python's `a + b` on the values Select.make concatenates
PyAdd(a, b) ==
    IF a.kind = "list" /\ b.kind = "list" THEN Ok(PyList(a.items \o b.items))
    ELSE IF a.kind = "int" /\ b.kind = "int" THEN Ok(PyInt(a.v + b.v))
    ELSE Raise("TypeError")

\* bool(x) for the values tested with `if x:` / `x or []` / `assert x`
Truthy(x) ==
    CASE x.kind = "None" -> FALSE
      [] x.kind = "list" -> x.items # <<>>
      [] x.kind = "int" -> x.v # 0
      [] x.kind = "str" -> x.v # ""
      [] OTHER -> TRUE

\* -------------------------------------------------------------- AST nodes
\* oid stands for the identity of the TablePath object: two TablePath objects
\* of the same path are distinct values
TablePath(oid, path) == [kind |-> "TablePath", oid |-> oid, path |-> path, schema |-> None]
TableAlias(t, name) == [kind |-> "TableAlias", source_table |-> t, name |-> name]
Column(t, name) == [kind |-> "Column", source_table |-> t, name |-> name]
BinOp(op, a, b) == [kind |-> "BinOp", op |-> op, args |-> PyList(<<a, b>>)]
ResolveColumn(i) == [kind |-> "ResolveColumn", id |-> i]
Join(ts) == [kind |-> "Join", source_tables |-> PyList(ts), op |-> None,
             on_exprs |-> None, columns |-> None]
Union(t1, t2) == [kind |-> "Union", table1 |-> t1, table2 |-> t2]
Cte(t, name) == [kind |-> "Cte", source_table |-> t, name |-> name, params |-> None]
Select(table) == [kind |-> "Select", table |-> table, columns |-> None,
                  where_exprs |-> None, order_by_exprs |-> None,
                  group_by_exprs |-> None, limit_expr |-> None]

\* cases is a list of (when, then) tuples
WhenThen(when, then) == [kind |-> "tuple", when |-> when, then |-> then]
CaseWhen(cases, else_) == [kind |-> "CaseWhen", cases |-> PyList(cases), else_ |-> else_]

ExprNodeKinds == {"TablePath", "TableAlias", "Column", "BinOp", "ResolveColumn",
                  "Join", "Union", "Cte", "Select", "CaseWhen"}
IsExprNode(v) == v.kind \in ExprNodeKinds

\* This.__getattr__: the name a placeholder object was created with
ResolveName(i) == IF i % 2 = 1 THEN "a" ELSE "b"

_drop_skips(exprs) == SelectSeq(exprs, LAMBDA e : e # SKIP)

\* --------------------------------------------------- table capability
\* the source_table attribute / property of a table node
SourceTable(t) ==
    IF t.kind \in {"TableAlias", "Cte"} THEN t.source_table ELSE t

\* the schema attribute / property of a table node: Ok(schema) or the raise.
\* Every TablePath here is built with the default schema = None, so no
\* derived Schema is ever built; the branches that would build one raise.
RECURSIVE SchemaOf(_)
SchemaOf(t) ==
    CASE t.kind = "TablePath" -> Ok(t.schema)
      [] t.kind = "TableAlias" -> Ok(None)
      [] t.kind = "Cte" -> SchemaOf(t.source_table)
      [] t.kind = "Select" ->
            IF t.table = None THEN Raise("AttributeError")
            ELSE LET s == SchemaOf(t.table) IN
                 IF s.status # "ok" \/ s.value = None \/ t.columns = None THEN s
                 ELSE Raise("TypeError")
      [] t.kind = "Join" ->
            IF ~Truthy(t.columns) THEN Raise("AssertionError")
            ELSE LET s == SchemaOf(t.source_tables.items[1]) IN
                 IF s.status # "ok" THEN s ELSE Raise("TypeError")
      [] t.kind = "Union" ->
            LET s1 == SchemaOf(t.table1)
                s2 == SchemaOf(t.table2) IN
            IF s1.status # "ok" THEN s1
            ELSE IF s2.status # "ok" THEN s2
            ELSE IF s1.value = None \/ s2.value = None THEN Raise("TypeError")
            ELSE s1
      [] OTHER -> Raise("AttributeError")

\* ITable._get_column
GetColumn(self, name) ==
    LET s == SchemaOf(self) IN
    IF s.status # "ok" THEN s
    ELSE IF Truthy(s.value) THEN Raise("KeyError")
    ELSE Ok(Column(self, name))

\* ------------------------------------------------------ name resolution
\* dict(node).items(): the dataclass fields of a node, in declaration order
DictItems(v, heap) ==
    CASE v.kind = "Column" ->
            <<[k |-> "source_table", v |-> v.source_table], [k |-> "name", v |-> PyStr(v.name)]>>
      [] v.kind = "ResolveColumn" ->
            <<[k |-> "resolve_name", v |-> PyStr(ResolveName(v.id))],
              [k |-> "resolved", v |-> heap[v.id]]>>
      [] v.kind = "BinOp" ->
            <<[k |-> "op", v |-> PyStr(v.op)], [k |-> "args", v |-> v.args]>>
      [] v.kind = "CaseWhen" ->
            <<[k |-> "cases", v |-> v.cases], [k |-> "else_", v |-> v.else_]>>
      [] v.kind = "TablePath" ->
            <<[k |-> "path", v |-> PyList([j \in 1..Len(v.path) |-> PyStr(v.path[j])])],
              [k |-> "schema", v |-> v.schema]>>
      [] v.kind = "TableAlias" ->
            <<[k |-> "source_table", v |-> v.source_table], [k |-> "name", v |-> PyStr(v.name)]>>
      [] v.kind = "Join" ->
            <<[k |-> "source_tables", v |-> v.source_tables], [k |-> "op", v |-> v.op],
              [k |-> "on_exprs", v |-> v.on_exprs], [k |-> "columns", v |-> v.columns]>>
      [] v.kind = "Union" ->
            <<[k |-> "table1", v |-> v.table1], [k |-> "table2", v |-> v.table2]>>
      [] v.kind = "Select" ->
            <<[k |-> "table", v |-> v.table], [k |-> "columns", v |-> v.columns],
              [k |-> "where_exprs", v |-> v.where_exprs],
              [k |-> "order_by_exprs", v |-> v.order_by_exprs],
              [k |-> "group_by_exprs", v |-> v.group_by_exprs],
              [k |-> "limit_expr", v |-> v.limit_expr]>>
      [] v.kind = "Cte" ->
            <<[k |-> "source_table", v |-> v.source_table], [k |-> "name", v |-> v.name],
              [k |-> "params", v |-> v.params]>>
      [] OTHER -> <<>>

\* the values the loop of ExprNode._dfs_values looks at below a node: every
\* field but source_table, a list field contributing its items
RECURSIVE FlattenItems(_)
FlattenItems(items) ==
    IF items = <<>> THEN <<>>
    ELSE LET it == Head(items) IN
         (IF it.k = "source_table" THEN <<>>
          ELSE IF it.v.kind = "list" THEN it.v.items
          ELSE <<it.v>>) \o FlattenItems(Tail(items))

DfsChildren(v, heap) == FlattenItems(DictItems(v, heap))

\* mutant of Resolve: the assert dropped, a resolved slot is overwritten
Resolve_Overwrite(heap, i, expr) ==
    [status |-> "ok", heap |-> [heap EXCEPT ![i] = expr]]

\* _ResolveColumn.resolve on object i of the heap
Resolve(heap, i, expr) ==
    IF heap[i] # None THEN [status |-> "AssertionError", heap |-> heap]
    ELSE [status |-> "ok", heap |-> [heap EXCEPT ![i] = expr]]

\* the body of resolve_names' inner loop for one node v yielded by the walk
\* st = [heap, status, visited]
Visit(source_table, v, st) ==
    LET seen == [st EXCEPT !.visited = Append(@, v)] IN
    IF v.kind # "ResolveColumn" THEN seen
    ELSE LET col == GetColumn(source_table, ResolveName(v.id)) IN
         IF col.status # "ok" THEN [seen EXCEPT !.status = col.status]
         ELSE LET r == Resolve(seen.heap, v.id, col.value) IN
              [seen EXCEPT !.status = r.status, !.heap = r.heap]

\* ExprNode._dfs_values driven by resolve_names: the generator is lazy, so a
\* node's fields are read after the node itself was yielded and handled
RECURSIVE DfsNode(_, _, _), DfsList(_, _, _)
DfsNode(source_table, v, st) ==
    IF st.status # "ok" THEN st
    ELSE LET st1 == Visit(source_table, v, st) IN
         IF st1.status # "ok" THEN st1
         ELSE DfsList(source_table, DfsChildren(v, st1.heap), st1)
DfsList(source_table, vs, st) ==
    IF vs = <<>> \/ st.status # "ok" THEN st
    ELSE DfsList(source_table, Tail(vs),
                 IF IsExprNode(Head(vs)) THEN DfsNode(source_table, Head(vs), st) ELSE st)

\* resolve_names(source_table, exprs), exprs a sequence
resolve_names(source_table, exprs, heap) ==
    DfsList(source_table, exprs, [heap |-> heap, status |-> "ok", visited |-> <<>>])

\* mutant of SelectMake: a set attribute is overwritten instead of merged
SelectMake_Overwrite(table, concat, k, v) ==
    IF table.kind # "Select" THEN Ok([Select(table) EXCEPT ![k] = v])
    ELSE Ok([table EXCEPT ![k] = v])

\* ------------------------------------------------------------ Select.make
\* Select.make(table, _concat, k=v) for one keyword k
SelectMake(table, concat, k, v) ==
    IF table.kind # "Select" THEN Ok([Select(table) EXCEPT ![k] = v])
    ELSE IF table[k] # None THEN
        IF concat THEN
            LET sum == PyAdd(table[k], v) IN
            IF sum.status # "ok" THEN sum ELSE Ok([table EXCEPT ![k] = sum.value])
        ELSE Raise("ValueError")
    ELSE Ok([table EXCEPT ![k] = v])

\* --------------------------------------------------------- builder verbs
\* the outcome of a verb: what it returned or raised, and the heap it left
Outcome(r, heap, visited) ==
    [status |-> r.status, value |-> r.value, heap |-> heap, visited |-> visited]

\* mutant of ITableSelect: the columns are merged with _concat=True
ITableSelect_Concat(self, exprs, heap) ==
    LET es == _drop_skips(exprs)
        rn == resolve_names(SourceTable(self), es, heap) IN
    IF rn.status # "ok" THEN Outcome(Raise(rn.status), rn.heap, rn.visited)
    ELSE Outcome(SelectMake(self, TRUE, "columns", PyList(es)), rn.heap, rn.visited)

\* ITable.select(*exprs), no keyword expressions
ITableSelect(self, exprs, heap) ==
    LET es == _drop_skips(exprs)
        rn == resolve_names(SourceTable(self), es, heap) IN
    IF rn.status # "ok" THEN Outcome(Raise(rn.status), rn.heap, rn.visited)
    ELSE Outcome(SelectMake(self, FALSE, "columns", PyList(es)), rn.heap, rn.visited)

\* ITable.where(*exprs)
ITableWhere(self, exprs, heap) ==
    LET es == _drop_skips(exprs)
        rn == resolve_names(SourceTable(self), es, heap) IN
    IF es = <<>> THEN Outcome(Ok(self), heap, <<>>)
    ELSE IF rn.status # "ok" THEN Outcome(Raise(rn.status), rn.heap, rn.visited)
    ELSE Outcome(SelectMake(self, TRUE, "where_exprs", PyList(es)), rn.heap, rn.visited)

\* ITable.order_by(*exprs)
ITableOrderBy(self, exprs, heap) ==
    LET es == _drop_skips(exprs)
        rn == resolve_names(SourceTable(self), es, heap) IN
    IF es = <<>> THEN Outcome(Ok(self), heap, <<>>)
    ELSE IF rn.status # "ok" THEN Outcome(Raise(rn.status), rn.heap, rn.visited)
    ELSE Outcome(SelectMake(self, FALSE, "order_by_exprs", PyList(es)), rn.heap, rn.visited)

\* ITable.limit(limit)
ITableLimit(self, limit, heap) ==
    IF limit = SKIP THEN Outcome(Ok(self), heap, <<>>)
    ELSE Outcome(SelectMake(self, FALSE, "limit_expr", limit), heap, <<>>)

\* ITable.join(target)
ITableJoin(self, target, heap) == Outcome(Ok(Join(<<self, target>>)), heap, <<>>)

\* Join.on(*exprs), the arguments given one by one (no generator)
JoinOn(self, exprs, heap) ==
    LET es == _drop_skips(exprs)
        old == IF Truthy(self.on_exprs) THEN self.on_exprs ELSE PyList(<<>>)
        sum == PyAdd(old, PyList(es)) IN
    IF es = <<>> THEN Outcome(Ok(self), heap, <<>>)
    ELSE IF sum.status # "ok" THEN Outcome(sum, heap, <<>>)
    ELSE Outcome(Ok([self EXCEPT !.on_exprs = sum.value]), heap, <<>>)

\* mutant of JoinSelect: the projection is replaced even when already set
JoinSelect_AlwaysReplace(self, exprs, heap) ==
    Outcome(Ok([self EXCEPT !.columns = PyList(_drop_skips(exprs))]), heap, <<>>)

\* Join.select(*exprs), no keyword expressions
JoinSelect(self, exprs, heap) ==
    IF self.columns # None THEN ITableSelect(self, exprs, heap)
    ELSE Outcome(Ok([self EXCEPT !.columns = PyList(_drop_skips(exprs))]), heap, <<>>)

\* method dispatch of table.select(...)
CallSelect(self, exprs, heap) ==
    IF self.kind = "Join" THEN JoinSelect(self, exprs, heap)
    ELSE ITableSelect(self, exprs, heap)

\* ------------------------------------------------- the builder, as a machine
T1 == TablePath(1, <<"t1">>)
T2 == TablePath(2, <<"db", "t2">>)
ColA == Column(T1, "a")
ColB == Column(T2, "b")
Placeholders == {ResolveColumn(i) : i \in 1..NumPlaceholders}
\* a sub-select built directly, used as an operand
SubSelect == [Select(T2) EXCEPT !.columns = PyList(<<ResolveColumn(2)>>)]

ExprPool ==
    Placeholders \cup
    { BinOp("=", ResolveColumn(1), ResolveColumn(1)),
      BinOp("=", ColA, SubSelect),
      CaseWhen(<<WhenThen(BinOp(">", ResolveColumn(1), PyInt(0)), PyStr("pos"))>>, None) }

ExprLists ==
    {<<SKIP>>, <<ColA, SKIP>>, <<ResolveColumn(1), ResolveColumn(2)>>}
    \cup {<<e>> : e \in ExprPool}

MakeKeys == {"where_exprs", "order_by_exprs", "columns", "limit_expr"}
MakeValues(k) ==
    IF k = "limit_expr" THEN {PyInt(5)}
    ELSE {PyList(<<ColB, ResolveColumn(2)>>)}

NoCall == [op |-> "none", self |-> None, exprs |-> <<>>, k |-> "", v |-> None,
           concat |-> FALSE, src |-> None, pre |-> [i \in 1..NumPlaceholders |-> None],
           status |-> "ok", visited |-> <<>>,
           prev_op |-> "none", prev_self |-> None, prev_status |-> "ok"]

\* the effect of a call on the machine: the chain moves on when the call
\* returned, stays when it raised; the heap keeps what the call did to it
Effect(c, r) ==
    /\ steps < MaxSteps
    /\ steps' = steps + 1
    /\ cur' = IF r.status = "ok" THEN r.value ELSE cur
    /\ resolved' = r.heap
    /\ call' = [c EXCEPT !.self = cur, !.pre = resolved, !.status = r.status,
                         !.visited = r.visited, !.prev_op = call.op,
                         !.prev_self = call.self, !.prev_status = call.status]
    /\ UNCHANGED <<inp, out>>

DoSelect ==
    \E es \in ExprLists :
        Effect([NoCall EXCEPT !.op = "select", !.exprs = es], CallSelect(cur, es, resolved))

DoWhere ==
    \E es \in ExprLists :
        Effect([NoCall EXCEPT !.op = "where", !.exprs = es], ITableWhere(cur, es, resolved))

DoOrderBy ==
    \E es \in ExprLists :
        Effect([NoCall EXCEPT !.op = "order_by", !.exprs = es], ITableOrderBy(cur, es, resolved))

DoLimit ==
    \E n \in {PyInt(10), SKIP} :
        Effect([NoCall EXCEPT !.op = "limit", !.v = n], ITableLimit(cur, n, resolved))

DoJoin ==
    \E t \in {T2} :
        Effect([NoCall EXCEPT !.op = "join", !.v = t], ITableJoin(cur, t, resolved))

DoOn ==
    /\ cur.kind = "Join"
    /\ \E es \in ExprLists :
        Effect([NoCall EXCEPT !.op = "on", !.exprs = es], JoinOn(cur, es, resolved))

DoMake ==
    \E k \in MakeKeys, concat \in BOOLEAN :
        \E v \in MakeValues(k) :
            Effect([NoCall EXCEPT !.op = "make", !.k = k, !.v = v, !.concat = concat],
                   Outcome(SelectMake(cur, concat, k, v), resolved, <<>>))

DoResolveNames ==
    \E src \in {T2}, es \in ExprLists :
        LET rn == resolve_names(src, es, resolved) IN
        Effect([NoCall EXCEPT !.op = "resolve_names", !.exprs = es, !.src = src],
               [status |-> rn.status, value |-> cur, heap |-> rn.heap, visited |-> rn.visited])

Idle == [kind |-> "idle"]

Init ==
    /\ cur = T1
    /\ resolved = [i \in 1..NumPlaceholders |-> None]
    /\ call = NoCall
    /\ steps = 0
    /\ inp = Idle
    /\ out = Idle

Next ==
    \/ DoSelect
    \/ DoWhere
    \/ DoOrderBy
    \/ DoLimit
    \/ DoJoin
    \/ DoOn
    \/ DoMake
    \/ DoResolveNames

Spec == Init /\ [][Next]_vars

\* ================================================================ compile
\* The Compiler: an immutable context c = [in_select, in_join, _table_context]
\* and the state all derived contexts share, m = [ctr, subq, status, trace]:
\* the unique-name counter, the _subqueries registry in insertion order, the
\* exception raised so far ("ok" when none), and a log of what the compile
\* methods of Select, Join, Union and Cte were given and returned.
Compiler(in_select, in_join, tc) ==
    [in_select |-> in_select, in_join |-> in_join, _table_context |-> tc]
NewState == [ctr |-> 0, subq |-> <<>>, status |-> "ok", trace |-> <<>>]

Res(sql, m) == [sql |-> sql, m |-> m]
Fail(m, e) == [sql |-> "", m |-> [m EXCEPT !.status = e]]

\* the dialect's quote
Quote(name) == "[" \o name \o "]"
\* the dialect's offset_limit(0, n)
OffsetLimit(n) == "LIMIT " \o ToString(n)
\* Compiler.new_unique_name
NewUniqueName(m) ==
    [name |-> "tmp" \o ToString(m.ctr + 1), m |-> [m EXCEPT !.ctr = @ + 1]]

\* sep.join(strs)
RECURSIVE JoinStr(_, _)
JoinStr(sep, strs) ==
    IF strs = <<>> THEN ""
    ELSE IF Len(strs) = 1 THEN strs[1]
    ELSE strs[1] \o sep \o JoinStr(sep, Tail(strs))

\* d[key] = val on an insertion-ordered dict
DictSet(d, key, val) ==
    IF \E j \in 1..Len(d) : d[j].key = key
    THEN [j \in 1..Len(d) |-> IF d[j].key = key THEN [key |-> key, sql |-> val] ELSE d[j]]
    ELSE Append(d, [key |-> key, sql |-> val])

\* `a is b` on table objects
SameObject(a, b) == a = b

\* mutant of ColumnCompile: with several matching aliases the first is taken
ColumnCompile_FirstAlias(self, c, m) ==
    LET tc == c._table_context
        aliases == SelectSeq(tc, LAMBDA t :
                       t.kind = "TableAlias" /\ SameObject(t.source_table, self.source_table)) IN
    IF Len(tc) > 1 /\ aliases # <<>>
    THEN Res(Quote(aliases[1].name) \o "." \o Quote(self.name), m)
    ELSE Res(Quote(self.name), m)

\* Column.compile
ColumnCompile(self, c, m) ==
    LET tc == c._table_context
        aliases == SelectSeq(tc, LAMBDA t :
                       t.kind = "TableAlias" /\ SameObject(t.source_table, self.source_table)) IN
    IF tc # <<>> /\ Len(tc) > 1 THEN
        IF aliases = <<>> THEN Res(Quote(self.name), m)
        ELSE IF Len(aliases) > 1 THEN Fail(m, "CompileError")
        ELSE Res(Quote(aliases[1].name) \o "." \o Quote(self.name), m)
    ELSE Res(Quote(self.name), m)

\* TablePath.compile
TablePathCompile(self, c, m) ==
    Res(JoinStr(".", [j \in 1..Len(self.path) |-> Quote(self.path[j])]), m)

RECURSIVE CompileAny(_, _, _, _), CompileList(_, _, _, _), SelectCompile(_, _, _, _),
          JoinCompile(_, _, _, _), UnionCompile(_, _, _, _), CteCompile(_, _, _, _),
          AliasTables(_, _)

\* map(c.compile, es), left to right; stops at the first raise
CompileList(es, c, m, heap) ==
    IF es = <<>> \/ m.status # "ok" THEN [sqls |-> <<>>, m |-> m]
    ELSE LET r == CompileAny(Head(es), c, m, heap)
             rest == CompileList(Tail(es), c, r.m, heap) IN
         [sqls |-> <<r.sql>> \o rest.sqls, m |-> rest.m]

\* BinOp.compile
BinOpCompile(self, c, m, heap) ==
    LET a == CompileAny(self.args.items[1], c, m, heap)
        b == CompileAny(self.args.items[2], c, a.m, heap) IN
    IF a.m.status # "ok" THEN Res("", a.m)
    ELSE IF b.m.status # "ok" THEN Res("", b.m)
    ELSE Res("(" \o a.sql \o " " \o self.op \o " " \o b.sql \o ")", b.m)

\* _ResolveColumn.compile
ResolveColumnCompile(self, c, m, heap) ==
    IF heap[self.id] = None THEN Fail(m, "RuntimeError")
    ELSE ColumnCompile(heap[self.id], c, m)

\* CaseWhen.compile
CaseWhenCompile(self, c, m, heap) ==
    LET cases == self.cases.items
        flat == [j \in 1..(2 * Len(cases)) |->
                    IF j % 2 = 1 THEN cases[(j + 1) \div 2].when ELSE cases[j \div 2].then]
        r == CompileList(flat, c, m, heap)
        when_thens == JoinStr(" ", [j \in 1..Len(cases) |->
                          "WHEN " \o r.sqls[2 * j - 1] \o " THEN " \o r.sqls[2 * j]])
        e == IF self.else_ # None THEN CompileAny(self.else_, c, r.m, heap) ELSE Res("", r.m)
        else_ == IF self.else_ # None THEN " ELSE " \o e.sql ELSE "" IN
    IF cases = <<>> THEN Fail(m, "AssertionError")
    ELSE IF r.m.status # "ok" THEN Res("", r.m)
    ELSE IF e.m.status # "ok" THEN Res("", e.m)
    ELSE Res("CASE " \o when_thens \o else_ \o " END", e.m)

\* TableAlias.compile
TableAliasCompile(self, c, m, heap) ==
    LET r == CompileAny(self.source_table, c, m, heap) IN
    IF r.m.status # "ok" THEN Res("", r.m)
    ELSE Res(r.sql \o " " \o Quote(self.name), r.m)

\* the list comprehension that opens Join.compile: each source that is no
\* TableAlias is wrapped in one with a fresh name
AliasTables(ts, m) ==
    IF ts = <<>> THEN [tables |-> <<>>, m |-> m]
    ELSE LET n == NewUniqueName(m)
             t == Head(ts)
             first == IF t.kind = "TableAlias" THEN [tables |-> <<t>>, m |-> m]
                      ELSE [tables |-> <<TableAlias(t, n.name)>>, m |-> n.m]
             rest == AliasTables(Tail(ts), first.m) IN
         [tables |-> first.tables \o rest.tables, m |-> rest.m]

\* Join.compile
JoinCompile(self, parent_c, m, heap) ==
    LET at == AliasTables(self.source_tables.items, m)
        c == [parent_c EXCEPT !._table_context = @ \o at.tables,
                              !.in_join = TRUE, !.in_select = FALSE]
        op == IF self.op = None THEN " JOIN " ELSE " " \o self.op.v \o " JOIN "
        r1 == CompileList(at.tables, c, at.m, heap)
        joined == JoinStr(op, r1.sqls)
        r2 == IF Truthy(self.on_exprs) THEN CompileList(self.on_exprs.items, c, r1.m, heap)
              ELSE [sqls |-> <<>>, m |-> r1.m]
        res == IF Truthy(self.on_exprs) THEN joined \o " ON " \o JoinStr(" AND ", r2.sqls)
               ELSE joined
        r3 == IF self.columns = None THEN [sqls |-> <<>>, m |-> r2.m]
              ELSE CompileList(self.columns.items, c, r2.m, heap)
        columns == IF self.columns = None THEN "*" ELSE JoinStr(", ", r3.sqls)
        select == "SELECT " \o columns \o " FROM " \o res
        n == NewUniqueName(r3.m)
        ret == IF parent_c.in_select THEN Res("(" \o select \o ") " \o n.name, n.m)
               ELSE IF parent_c.in_join THEN Res("(" \o select \o ")", r3.m)
               ELSE Res(select, r3.m) IN
    IF r3.m.status # "ok" THEN Res("", r3.m)
    ELSE Res(ret.sql, [ret.m EXCEPT !.trace = Append(@,
            [kind |-> "Join", parent |-> parent_c, child |-> c, inner |-> select,
             ret |-> ret.sql, ctr |-> r3.m.ctr])])

\* mutant of UnionCompile: in_join is looked at before in_select
UnionCompile_JoinFirst(self, parent_c, m, heap) ==
    LET c == [parent_c EXCEPT !.in_select = FALSE]
        r1 == CompileAny(self.table1, c, m, heap)
        r2 == CompileAny(self.table2, c, r1.m, heap)
        union_all == r1.sql \o " UNION " \o r2.sql
        n == NewUniqueName(r2.m)
        ret == IF parent_c.in_join THEN Res("(" \o union_all \o ")", r2.m)
               ELSE IF parent_c.in_select THEN Res("(" \o union_all \o ") " \o n.name, n.m)
               ELSE Res(union_all, r2.m) IN
    IF r1.m.status # "ok" THEN Res("", r1.m)
    ELSE IF r2.m.status # "ok" THEN Res("", r2.m)
    ELSE Res(ret.sql, [ret.m EXCEPT !.trace = Append(@,
            [kind |-> "Union", parent |-> parent_c, child |-> c, inner |-> union_all,
             ret |-> ret.sql, ctr |-> r2.m.ctr])])

\* Union.compile
UnionCompile(self, parent_c, m, heap) ==
    LET c == [parent_c EXCEPT !.in_select = FALSE]
        r1 == CompileAny(self.table1, c, m, heap)
        r2 == CompileAny(self.table2, c, r1.m, heap)
        union_all == r1.sql \o " UNION " \o r2.sql
        n == NewUniqueName(r2.m)
        ret == IF parent_c.in_select THEN Res("(" \o union_all \o ") " \o n.name, n.m)
               ELSE IF parent_c.in_join THEN Res("(" \o union_all \o ")", r2.m)
               ELSE Res(union_all, r2.m) IN
    IF r1.m.status # "ok" THEN Res("", r1.m)
    ELSE IF r2.m.status # "ok" THEN Res("", r2.m)
    ELSE Res(ret.sql, [ret.m EXCEPT !.trace = Append(@,
            [kind |-> "Union", parent |-> parent_c, child |-> c, inner |-> union_all,
             ret |-> ret.sql, ctr |-> r2.m.ctr])])

\* Select.compile
SelectCompile(self, parent_c, m, heap) ==
    LET c == [parent_c EXCEPT !.in_select = TRUE]
        none(mm) == [sqls |-> <<>>, m |-> mm]
        r1 == IF Truthy(self.columns) THEN CompileList(self.columns.items, c, m, heap)
              ELSE none(m)
        s1 == "SELECT " \o (IF Truthy(self.columns) THEN JoinStr(", ", r1.sqls) ELSE "*")
        r2 == IF Truthy(self.table) THEN CompileList(<<self.table>>, c, r1.m, heap)
              ELSE none(r1.m)
        s2 == IF Truthy(self.table) /\ r2.m.status = "ok"
              THEN s1 \o " FROM " \o r2.sqls[1] ELSE s1
        r3 == IF Truthy(self.where_exprs)
              THEN CompileList(self.where_exprs.items, c, r2.m, heap) ELSE none(r2.m)
        s3 == IF Truthy(self.where_exprs)
              THEN s2 \o " WHERE " \o JoinStr(" AND ", r3.sqls) ELSE s2
        r4 == IF Truthy(self.group_by_exprs)
              THEN CompileList(self.group_by_exprs.items, c, r3.m, heap) ELSE none(r3.m)
        s4 == IF Truthy(self.group_by_exprs)
              THEN s3 \o " GROUP BY " \o JoinStr(", ", r4.sqls) ELSE s3
        r5 == IF Truthy(self.order_by_exprs)
              THEN CompileList(self.order_by_exprs.items, c, r4.m, heap) ELSE none(r4.m)
        s5 == IF Truthy(self.order_by_exprs)
              THEN s4 \o " ORDER BY " \o JoinStr(", ", r5.sqls) ELSE s4
        select == IF self.limit_expr # None
                  THEN s5 \o " " \o OffsetLimit(self.limit_expr.v) ELSE s5
        n == NewUniqueName(r5.m)
        ret == IF parent_c.in_select THEN Res("(" \o select \o ") " \o n.name, n.m)
               ELSE IF parent_c.in_join THEN Res("(" \o select \o ")", r5.m)
               ELSE Res(select, r5.m) IN
    IF r5.m.status # "ok" THEN Res("", r5.m)
    ELSE Res(ret.sql, [ret.m EXCEPT !.trace = Append(@,
            [kind |-> "Select", parent |-> parent_c, child |-> c, inner |-> select,
             ret |-> ret.sql, ctr |-> r5.m.ctr])])

\* mutant of CteCompile: the definition is registered on entering the Cte,
\* before the definitions its source registers
CteCompile_RegisterOnEntry(self, parent_c, m, heap) ==
    LET c == [parent_c EXCEPT !._table_context = <<>>, !.in_select = FALSE]
        r == CompileAny(self.source_table, c, m, heap)
        n == NewUniqueName(r.m)
        named == Truthy(self.name)
        name == IF named THEN self.name.v ELSE n.name
        m1 == IF named THEN r.m ELSE n.m
        inner(old, new) == SubSeq(new, Len(old) + 1, Len(new))
        ev == [kind |-> "Cte", node |-> self, key |-> name]
        m2 == [m1 EXCEPT !.subq = DictSet(m.subq, name, r.sql) \o inner(m.subq, r.m.subq),
                         !.trace = Append(m.trace, ev) \o inner(m.trace, r.m.trace)] IN
    IF r.m.status # "ok" THEN Res("", r.m) ELSE Res(name, m2)

\* Cte.compile
CteCompile(self, parent_c, m, heap) ==
    LET c == [parent_c EXCEPT !._table_context = <<>>, !.in_select = FALSE]
        r == CompileAny(self.source_table, c, m, heap)
        n == NewUniqueName(r.m)
        named == Truthy(self.name)
        name == IF named THEN self.name.v ELSE n.name
        m1 == IF named THEN r.m ELSE n.m
        name_params == IF Truthy(self.params)
                       THEN name \o "(" \o JoinStr(", ", self.params.items) \o ")" ELSE name
        m2 == [m1 EXCEPT !.subq = DictSet(@, name_params, r.sql),
                         !.trace = Append(@, [kind |-> "Cte", node |-> self,
                                              key |-> name_params])] IN
    IF r.m.status # "ok" THEN Res("", r.m) ELSE Res(name, m2)

\* Compiler.compile: a node compiles itself under c, a literal is rendered
CompileAny(e, c, m, heap) ==
    IF m.status # "ok" THEN Res("", m)
    ELSE CASE e.kind = "None" -> Res("NULL", m)
           [] e.kind = "int" -> Res(ToString(e.v), m)
           [] e.kind = "str" -> Res(e.v, m)
           [] e.kind = "Column" -> ColumnCompile(e, c, m)
           [] e.kind = "BinOp" -> BinOpCompile(e, c, m, heap)
           [] e.kind = "ResolveColumn" -> ResolveColumnCompile(e, c, m, heap)
           [] e.kind = "TablePath" -> TablePathCompile(e, c, m)
           [] e.kind = "CaseWhen" -> CaseWhenCompile(e, c, m, heap)
           [] e.kind = "TableAlias" -> TableAliasCompile(e, c, m, heap)
           [] e.kind = "Join" -> JoinCompile(e, c, m, heap)
           [] e.kind = "Union" -> UnionCompile(e, c, m, heap)
           [] e.kind = "Select" -> SelectCompile(e, c, m, heap)
           [] e.kind = "Cte" -> CteCompile(e, c, m, heap)
           [] OTHER -> Fail(m, "AttributeError")

\* ------------------------------------------------ compilation, as a machine
MaxCtx == 3
MaxDepth == 3

\* a second TablePath object of the same path as T1
T1b == TablePath(3, <<"t1">>)
OnAB == BinOp("=", ColA, ColB)
OnAA == BinOp("=", ColA, Column(T1, "id"))

\* the entries a _table_context is drawn from
CtxEntries ==
    {TableAlias(T1, "x"), TableAlias(T1, "y"), TableAlias(T2, "z"), TableAlias(T1b, "w"), T1}
RECURSIVE SeqsUpTo(_, _)
SeqsUpTo(S, n) ==
    IF n = 0 THEN {<<>>}
    ELSE LET shorter == SeqsUpTo(S, n - 1) IN
         shorter \cup {Append(q, x) : q \in {r \in shorter : Len(r) = n - 1}, x \in S}

Leaves == {T1, T2}
\* the tables one builder step makes out of the tables of S
Grow(S) ==
    S \cup {Select(t) : t \in S}
      \cup {[Select(t) EXCEPT !.columns = PyList(<<ColA>>),
                              !.where_exprs = PyList(<<BinOp(">", ColA, PyInt(18))>>),
                              !.limit_expr = PyInt(10)] : t \in Leaves}
      \cup {Join(<<a, b>>) : a \in S, b \in Leaves \cup {Cte(T2, PyStr("c2"))}}
      \cup {[Join(<<a, T2>>) EXCEPT !.on_exprs = PyList(<<OnAB>>)] : a \in S}
      \cup {Union(a, b) : a \in S, b \in Leaves}
      \cup {Cte(a, n) : a \in S, n \in {PyStr("c1"), None}}
RECURSIVE Trees(_)
Trees(d) == IF d = 0 THEN Leaves ELSE Grow(Trees(d - 1))

\* trees built by hand: a self-join, placeholders, a Cte under a Select under a Cte
HandTrees ==
    { [Join(<<T1, T1>>) EXCEPT !.on_exprs = PyList(<<OnAA>>)],
      [Join(<<TableAlias(T1, "l"), TableAlias(T1, "r")>>) EXCEPT !.on_exprs = PyList(<<OnAA>>)],
      [Join(<<T1, T1b>>) EXCEPT !.on_exprs = PyList(<<OnAA>>), !.columns = PyList(<<ColA>>)],
      [Select(T1) EXCEPT !.columns = PyList(<<ResolveColumn(1)>>)],
      [Select(T1) EXCEPT !.columns = PyList(<<ResolveColumn(2)>>)],
      [Select(T1) EXCEPT !.columns = PyList(<<CaseWhen(
          <<WhenThen(BinOp(">", ColA, PyInt(0)), PyInt(1)), WhenThen(OnAA, PyInt(0))>>,
          PyInt(2))>>)],
      Cte(Select(Cte(Select(Cte(T1, None)), PyStr("c1"))), PyStr("c2")),
      Union(Cte(T1, PyStr("c1")), Cte(Select(Cte(T2, PyStr("c2"))), PyStr("c3"))) }

\* the heap the compiled trees refer to: placeholder 1 resolved, the rest not
CompileHeap == [i \in 1..NumPlaceholders |-> IF i = 1 THEN ColA ELSE None]

InitCompile ==
    /\ cur = None
    /\ resolved = CompileHeap
    /\ call = NoCall
    /\ steps = 0
    /\ out = Idle
    /\ \/ \E col \in {ColA, ColB}, tc \in SeqsUpTo(CtxEntries, MaxCtx) :
             inp = [kind |-> "compile", ast |-> col, c |-> Compiler(FALSE, FALSE, tc)]
       \/ \E t \in Trees(MaxDepth) \cup HandTrees, sel \in BOOLEAN, jn \in BOOLEAN :
             inp = [kind |-> "compile", ast |-> t, c |-> Compiler(sel, jn, <<>>)]

\* compiler.compile(ast) under the context c, with a fresh shared state
Compile ==
    /\ inp.kind = "compile"
    /\ out = Idle
    /\ LET r == CompileAny(inp.ast, inp.c, NewState, resolved) IN
       out' = [kind |-> "compiled", sql |-> r.sql, m |-> r.m]
    /\ UNCHANGED <<cur, resolved, call, steps, inp>>

NextCompile == Compile

SpecCompile == InitCompile /\ [][NextCompile]_vars

\* ============================================================ CaseWhen.type
MaxCases == 2

\* type(e) of a Python value that is no ExprNode
PyType(e) == [kind |-> "type", name |-> e.kind]

\* Column.type: no table of the model has a schema to look the name up in
ColumnType(e) ==
    LET s == SchemaOf(e.source_table) IN
    IF s.status # "ok" THEN s
    ELSE IF s.value = None THEN Raise("RuntimeError")
    ELSE Raise("KeyError")

\* the type attribute / property of an ExprNode: Ok(type) or the raise
TypeAttr(e, heap) ==
    CASE e.kind = "Column" -> ColumnType(e)
      [] e.kind = "ResolveColumn" ->
            IF heap[e.id] = None THEN Raise("RuntimeError") ELSE ColumnType(heap[e.id])
      [] OTHER -> Ok(None)

\* _expr_type
_expr_type(e, heap) == IF IsExprNode(e) THEN TypeAttr(e, heap) ELSE Ok(PyType(e))

\* CaseWhen.type
CaseWhenType(self, heap) ==
    LET cases == self.cases.items
        ts == [j \in 1..Len(cases) |-> _expr_type(cases[j].then, heap)]
        bad == {j \in 1..Len(cases) : ts[j].status # "ok"}
        when_types == {ts[j].value : j \in 1..Len(cases)}
        et == _expr_type(self.else_, heap) IN
    IF bad # {} THEN ts[CHOOSE j \in bad : \A h \in bad : j <= h]
    ELSE IF Truthy(self.else_) THEN
        \* when_types |= <a type>: a set takes |= with another set only
        IF et.status # "ok" THEN et ELSE Raise("TypeError")
    ELSE IF Cardinality(when_types) > 1 THEN Raise("RuntimeError")
    ELSE IF when_types = {} THEN Raise("ValueError")
    ELSE Ok(CHOOSE t \in when_types : TRUE)

ThenValues == {PyStr("pos"), PyStr(""), PyInt(1), PyInt(0), BinOp("+", ColA, PyInt(1))}
WhenExpr == BinOp(">", ColA, PyInt(0))
CaseLists ==
    {[j \in 1..Len(q) |-> WhenThen(WhenExpr, q[j])] :
        q \in SeqsUpTo(ThenValues, MaxCases) \ {<<>>}}

InitCaseWhen ==
    /\ cur = None
    /\ resolved = CompileHeap
    /\ call = NoCall
    /\ steps = 0
    /\ out = Idle
    /\ \E cases \in CaseLists, else_ \in ThenValues \cup {None} :
          inp = [kind |-> "type", node |-> CaseWhen(cases, else_)]

\* reading node.type
ReadType ==
    /\ inp.kind = "type"
    /\ out = Idle
    /\ out' = [kind |-> "typed", r |-> CaseWhenType(inp.node, resolved)]
    /\ UNCHANGED <<cur, resolved, call, steps, inp>>

NextCaseWhen == ReadType

SpecCaseWhen == InitCaseWhen /\ [][NextCaseWhen]_vars

\* ================================================================ claims
SelectFields == {"kind", "table", "columns", "where_exprs", "order_by_exprs",
                 "group_by_exprs", "limit_expr"}
Args == _drop_skips(call.exprs)

\* C1: Select.make(S, k=v) on a Select S fills an unset k with v and keeps the
\* rest of S; on a set k it appends v (S.k + v) under _concat and keeps the
\* rest, and raises the merge conflict without _concat, returning no node; on a
\* table that is no Select it returns a new Select wrapping the table.
C1_SelectMake ==
    call.op = "make" =>
        LET S == call.self
            k == call.k
            v == call.v IN
        IF S.kind # "Select" THEN
            /\ call.status = "ok"
            /\ cur.kind = "Select" /\ cur.table = S /\ cur[k] = v
            /\ \A f \in SelectFields \ {"kind", "table", k} : cur[f] = None
        ELSE IF S[k] = None THEN
            /\ call.status = "ok"
            /\ cur[k] = v
            /\ \A f \in SelectFields \ {k} : cur[f] = S[f]
        ELSE IF call.concat THEN
            /\ call.status = "ok"
            /\ IF k = "limit_expr" THEN cur[k] = PyInt(S[k].v + v.v)
               ELSE cur[k] = PyList(S[k].items \o v.items)
            /\ \A f \in SelectFields \ {k} : cur[f] = S[f]
        ELSE
            /\ call.status = "ValueError"
            /\ cur = S

C1_Witness ==
    /\ call.op = "make" /\ call.concat /\ call.status = "ok"
    /\ call.self.kind = "Select" /\ call.k = "where_exprs"
    /\ call.self.where_exprs # None
    /\ Len(cur.where_exprs.items) > Len(call.self.where_exprs.items)

\* C2 as stated: T.select(A).select(B) succeeds and yields one Select over T
\* whose columns are B.
C2_SelectSelectReplaces ==
    (/\ call.op = "select" /\ call.prev_op = "select" /\ call.prev_status = "ok"
     /\ call.prev_self.kind # "Join")
    => /\ call.status = "ok"
       /\ cur.kind = "Select"
       /\ cur.columns = PyList(Args)
       /\ cur.table.kind # "Select"

\* C2 as amended: for a table T that is no Join, T.select(A) returns a Select
\* with columns = A, and a second select on that result returns no node: it
\* raises (the merge conflict whenever B holds no placeholder) and the chain
\* stays at the Select with columns A.
C2_SelectSelectFails ==
    /\ (call.op = "select" /\ call.status = "ok" /\ call.self.kind # "Join")
        => cur.kind = "Select" /\ cur.columns = PyList(Args)
    /\ (/\ call.op = "select" /\ call.prev_op = "select" /\ call.prev_status = "ok"
        /\ call.prev_self.kind # "Join")
        => /\ call.status # "ok"
           /\ cur = call.self
           /\ call.self.columns # None
           /\ (\A j \in 1..Len(call.visited) : call.visited[j].kind # "ResolveColumn")
                => call.status = "ValueError"

C2_Witness ==
    /\ call.op = "select" /\ call.prev_op = "select" /\ call.prev_status = "ok"
    /\ call.prev_self.kind = "TablePath"
    /\ call.status = "ValueError"

\* C3: the resolved slot of a placeholder changes at most once, from unset to
\* a column; a call that reaches a placeholder already resolved (before the
\* call, or earlier in the same call) raises there and leaves the slot as it was.
C3_ResolveOnce ==
    /\ \A i \in 1..NumPlaceholders :
          /\ call.pre[i] # None => resolved[i] = call.pre[i]
          /\ resolved[i] # None => resolved[i].kind = "Column"
    /\ \A j \in 1..Len(call.visited) :
          LET v == call.visited[j] IN
          (/\ v.kind = "ResolveColumn"
           /\ \/ call.pre[v.id] # None
              \/ \E h \in 1..(j - 1) : call.visited[h] = v)
          => call.status # "ok" /\ j = Len(call.visited)

C3_Witness ==
    /\ call.status = "AssertionError"
    /\ Len(call.visited) > 0
    /\ LET v == call.visited[Len(call.visited)] IN
       /\ v.kind = "ResolveColumn"
       /\ call.pre[v.id] # None
       /\ resolved[v.id] = call.pre[v.id]

\* every field value of a node, source_table included, list items flattened
RECURSIVE AllItems(_)
AllItems(items) ==
    IF items = <<>> THEN <<>>
    ELSE (IF Head(items).v.kind = "list" THEN Head(items).v.items ELSE <<Head(items).v>>)
         \o AllItems(Tail(items))

\* the placeholders at or below v; with inTable, only those that lie inside a
\* table-valued node
TableKinds == {"TablePath", "TableAlias", "Select", "Join", "Union", "Cte"}
RECURSIVE PlaceholdersOf(_, _, _)
PlaceholdersOf(v, onlyInTable, inTable) ==
    IF v.kind = "tuple" THEN PlaceholdersOf(v.when, onlyInTable, inTable)
                             \cup PlaceholdersOf(v.then, onlyInTable, inTable)
    ELSE IF ~IsExprNode(v) THEN {}
    ELSE IF v.kind = "ResolveColumn" THEN (IF onlyInTable /\ ~inTable THEN {} ELSE {v.id})
    ELSE LET kids == AllItems(DictItems(v, resolved)) IN
         UNION { PlaceholdersOf(kids[j], onlyInTable, inTable \/ v.kind \in TableKinds)
                 : j \in 1..Len(kids) }

ArgPlaceholders == UNION { PlaceholdersOf(Args[j], FALSE, FALSE) : j \in 1..Len(Args) }
ArgPlaceholdersInTables == UNION { PlaceholdersOf(Args[j], TRUE, FALSE) : j \in 1..Len(Args) }

\* C4: after select, where, order_by, Join.on or Join.select returned, no
\* placeholder of the arguments is left unresolved.
C4_NoUnresolvedAfterVerb ==
    (call.op \in {"select", "where", "order_by", "on"} /\ call.status = "ok")
    => \A i \in ArgPlaceholders : resolved[i] # None

C7_StaysOutOfTables ==
    (call.op \in {"select", "where", "order_by", "resolve_names"})
    => \A j \in 1..Len(call.visited) :
          call.visited[j].kind = "ResolveColumn"
          => call.visited[j].id \notin ArgPlaceholdersInTables

\* ------------------------------------------------------- claims on compile
Compiled == inp.kind = "compile" /\ out # Idle
CompiledOk == Compiled /\ out.m.status = "ok"
Events(kinds) == SelectSeq(out.m.trace, LAMBDA ev : ev.kind \in kinds)

\* C8: a Column compiles to its bare quoted name when the table context has at
\* most one entry or holds no TableAlias of the column's source table, to
\* <quoted alias>.<quoted name> when exactly one entry is such a TableAlias,
\* and raises a compile error when more than one is (a table joined with itself).
C8_ColumnQualification ==
    /\ (Compiled /\ inp.ast.kind = "Column") =>
        LET col == inp.ast
            tc == inp.c._table_context
            matches == {j \in 1..Len(tc) :
                          tc[j].kind = "TableAlias" /\ tc[j].source_table = col.source_table} IN
        IF Len(tc) <= 1 \/ matches = {} THEN
            out.m.status = "ok" /\ out.sql = Quote(col.name)
        ELSE IF Cardinality(matches) = 1 THEN
            /\ out.m.status = "ok"
            /\ \E j \in matches : out.sql = Quote(tc[j].name) \o "." \o Quote(col.name)
        ELSE out.m.status = "CompileError"
    /\ (/\ Compiled /\ inp.ast.kind = "Join" /\ Truthy(inp.ast.on_exprs)
        /\ inp.ast.source_tables.items[1] = inp.ast.source_tables.items[2]
        /\ inp.ast.source_tables.items[1].kind = "TablePath"
        /\ inp.ast.on_exprs.items[1].kind = "BinOp"
        /\ inp.ast.on_exprs.items[1].args.items[1]
              = Column(inp.ast.source_tables.items[1], "a"))
        => out.m.status = "CompileError"

C8_Witness ==
    /\ Compiled /\ inp.ast.kind = "Column"
    /\ Len(inp.c._table_context) = 3
    /\ Cardinality({j \in 1..3 : /\ inp.c._table_context[j].kind = "TableAlias"
                                /\ inp.c._table_context[j].source_table
                                      = inp.ast.source_table}) = 2
    /\ out.m.status = "CompileError"

\* the Select, Join and Union nodes of a tree
RECURSIVE CountWrapped(_)
CountWrapped(v) ==
    IF ~IsExprNode(v) THEN 0
    ELSE LET kids == AllItems(DictItems(v, resolved))
             below[j \in 0..Len(kids)] ==
                 IF j = 0 THEN 0 ELSE below[j - 1] + CountWrapped(kids[j]) IN
         below[Len(kids)] + (IF v.kind \in {"Select", "Join", "Union"} THEN 1 ELSE 0)

\* C9: what Select, Join and Union return is their SQL wrapped by the parent
\* context alone: (sql) and a fresh unique name when the parent has in_select,
\* else (sql) when the parent has in_join, else the bare sql; their children
\* are compiled with in_select set by Select, in_join set and in_select
\* cleared by Join, in_select cleared by Union.
C9_WrappedByParent ==
    /\ Compiled =>
        \A j \in 1..Len(out.m.trace) :
            LET ev == out.m.trace[j] IN
            ev.kind \in {"Select", "Join", "Union"} =>
                /\ ev.ret = IF ev.parent.in_select
                            THEN "(" \o ev.inner \o ") tmp" \o ToString(ev.ctr + 1)
                            ELSE IF ev.parent.in_join THEN "(" \o ev.inner \o ")"
                            ELSE ev.inner
                /\ \A h \in 1..(j - 1) :
                      out.m.trace[h].kind # "Cte" => out.m.trace[h].ctr <= ev.ctr
                /\ CASE ev.kind = "Select" ->
                            ev.child.in_select /\ ev.child.in_join = ev.parent.in_join
                     [] ev.kind = "Join" -> ev.child.in_join /\ ~ev.child.in_select
                     [] ev.kind = "Union" ->
                            ~ev.child.in_select /\ ev.child.in_join = ev.parent.in_join
    /\ (CompiledOk /\ inp.ast.kind \in {"Select", "Join", "Union"}) =>
        LET evs == Events({"Select", "Join", "Union"}) IN
        /\ Len(evs) = CountWrapped(inp.ast)
        /\ evs[Len(evs)].kind = inp.ast.kind
        /\ evs[Len(evs)].ret = out.sql
        /\ evs[Len(evs)].parent = inp.c
    /\ (Compiled /\ ~inp.c.in_select /\ ~inp.c.in_join) =>
        /\ inp.ast = Select(Select(T1))
              => out.sql = "SELECT * FROM (SELECT * FROM [t1]) tmp1"
        /\ inp.ast = Select(Union(T1, T2))
              => out.sql = "SELECT * FROM ([t1] UNION [db].[t2]) tmp1"
        /\ inp.ast = Join(<<Select(T1), T2>>)
              => out.sql = "SELECT * FROM (SELECT * FROM [t1]) [tmp1] JOIN [db].[t2] [tmp2]"
        /\ inp.ast = Union(Select(T1), T2)
              => out.sql = "SELECT * FROM [t1] UNION [db].[t2]"
        /\ inp.ast = Select(Join(<<Union(T1, T2), T2>>))
              => out.sql = "SELECT * FROM (SELECT * FROM ([t1] UNION [db].[t2]) [tmp1] "
                           \o "JOIN [db].[t2] [tmp2]) tmp3"

C9_Witness ==
    /\ CompiledOk
    /\ inp.ast = Select(Join(<<Union(T1, T2), T2>>))
    /\ inp.c.in_join /\ ~inp.c.in_select
    /\ Len(Events({"Select", "Join", "Union"})) = 3
    /\ out.sql = "(SELECT * FROM (SELECT * FROM ([t1] UNION [db].[t2]) [tmp1] "
                 \o "JOIN [db].[t2] [tmp2]) tmp3)"

\* the children a compile method compiles, in the order it compiles them
CompileKids(v) ==
    LET items(x) == IF x.kind = "list" THEN x.items ELSE <<>> IN
    CASE v.kind = "Select" ->
            items(v.columns) \o <<v.table>> \o items(v.where_exprs)
            \o items(v.group_by_exprs) \o items(v.order_by_exprs)
      [] v.kind = "Join" -> items(v.source_tables) \o items(v.on_exprs) \o items(v.columns)
      [] v.kind = "Union" -> <<v.table1, v.table2>>
      [] v.kind \in {"Cte", "TableAlias"} -> <<v.source_table>>
      [] v.kind = "BinOp" -> items(v.args)
      [] OTHER -> <<>>

\* the Cte nodes of a tree in the order a depth-first, left-to-right walk
\* enters them (pre = TRUE) or leaves them (pre = FALSE)
RECURSIVE CteOrder(_, _)
CteOrder(v, pre) ==
    LET kids == CompileKids(v)
        below[j \in 0..Len(kids)] ==
            IF j = 0 THEN <<>> ELSE below[j - 1] \o CteOrder(kids[j], pre)
        me == IF v.kind = "Cte" THEN <<v>> ELSE <<>> IN
    IF pre THEN me \o below[Len(kids)] ELSE below[Len(kids)] \o me

RECURSIVE Dedup(_)
Dedup(q) ==
    IF q = <<>> THEN <<>>
    ELSE LET front == Dedup(SubSeq(q, 1, Len(q) - 1)) IN
         IF \E j \in 1..Len(front) : front[j] = q[Len(q)] THEN front
         ELSE Append(front, q[Len(q)])

Registered == Events({"Cte"})
RegisteredNodes == [j \in 1..Len(Registered) |-> Registered[j].node]
RegisteredKeys == [j \in 1..Len(Registered) |-> Registered[j].key]
RegistryKeys == [j \in 1..Len(out.m.subq) |-> out.m.subq[j].key]

\* C6 as stated: the CTE definitions are inserted into the registry in the
\* order in which the walk enters the Cte nodes.
C6_RegisteredInEntryOrder ==
    CompiledOk => RegisteredNodes = CteOrder(inp.ast, TRUE)

\* C6 as amended: the CTE definitions are inserted into the one registry all
\* derived contexts share in the order in which the depth-first, left-to-right
\* walk leaves the Cte nodes: a Cte nested in the source of another is
\* inserted before the enclosing one. A key inserted again keeps its place.
C6_RegisteredInCompletionOrder ==
    CompiledOk =>
        /\ RegisteredNodes = CteOrder(inp.ast, FALSE)
        /\ RegistryKeys = Dedup(RegisteredKeys)
        /\ \A j \in 1..Len(Registered) :
              Truthy(Registered[j].node.name) => Registered[j].key = Registered[j].node.name.v

C6_Witness ==
    /\ CompiledOk
    /\ inp.ast = Cte(Select(Cte(Select(Cte(T1, None)), PyStr("c1"))), PyStr("c2"))
    /\ RegistryKeys = <<"tmp1", "c1", "c2">>
    /\ CteOrder(inp.ast, TRUE) # CteOrder(inp.ast, FALSE)

\* ---------------------------------------------------- claim on CaseWhen.type
\* C10: the type of a CaseWhen with at least one case is the one type all its
\* then branches and its else_, when else_ is given, have; when they do not
\* all have the same type, reading the type raises the non-matching-types error.
C10_CaseWhenType ==
    (inp.kind = "type" /\ out # Idle) =>
        LET cases == inp.node.cases.items
            types == {_expr_type(cases[j].then, resolved).value : j \in 1..Len(cases)}
                     \cup (IF inp.node.else_ = None THEN {}
                           ELSE {_expr_type(inp.node.else_, resolved).value}) IN
        IF Cardinality(types) = 1 THEN out.r = Ok(CHOOSE t \in types : TRUE)
        ELSE out.r.status = "RuntimeError"

====
